---- MODULE Spec2Model ----
(***************************************************************************)
(* Model of petkir/session-samples, ai_search/python: the bounded-         *)
(* concurrency embedding / vision batch calls (01_Upload_PDF,              *)
(* 02_Upload_PDF_Images), the group membership cache, security filter and  *)
(* secure search (03_Upload_PDF_Permissions) and the index uploader.       *)
(***************************************************************************)
EXTENDS Integers, Sequences, FiniteSets, TLC

(***************************************************************************)
(* Bounds of the model                                                     *)
(***************************************************************************)
MaxUnits == 2
MaxLimit == 2
\* Throttler(rate_limit=100, period=60), scaled down so that the window fills
RateLimit == 1
\* longest list handed to generate_security_filter
MaxGroups == 2
\* the modelled clock: minutes per step, and where it stops
TimeStep == 10
MaxNow == 30
\* longest chunk list handed to upload_documents
MaxChunks == 3
\* batch_size = 100, scaled down so that a call needs several batches
BatchSize == 2
\* upload_documents calls in a row
MaxCalls == 2
\* tokens of a vision response text
MaxText == 4
\* seconds of the Retry-After header the service sends with a 429
RetryAfter == 5
\* settings.vector_dimensions (1536), scaled down
vector_dimensions == 2
\* max_chars = 7000 of _prepare_text_for_embedding, scaled down
max_chars == 3

(***************************************************************************)
(* Program constants                                                       *)
(***************************************************************************)
max_retries == 3
\* self.retry_delay = 1.0, in seconds
retry_delay == 1
\* self._cache_expiry = timedelta(minutes=30)
cache_expiry == 30

VARIABLES
    \* ---- one batch call (generate_embeddings / analyze_images) ----
    kind,               \* "embedding" | "vision": which batch call this is
    chunks,             \* the input list: the id of each unit, by position
    limit,              \* settings.max_concurrent_chunks / max_concurrent_images
    semaphore,          \* free slots of the asyncio.Semaphore of this call
    throttler,          \* acquisitions inside the Throttler's current period
    pc,                 \* position of each unit's task
    attempt,            \* loop variable `attempt` of each unit's task
    gathered,           \* what asyncio.gather(return_exceptions=True) holds per task
    results,            \* the list the batch call returns
    bpc                 \* position of the batch call itself

VARIABLES
    \* ---- what the tasks of the batch call did (history) ----
    requests,           \* session.post calls each unit issued so far
    last_status,        \* the response a unit is backing off from or ended with
    delay,              \* the seconds a unit in asyncio.sleep sleeps
    overtaken           \* some task ended while a task created before it ran on

batchVars == <<kind, chunks, limit, semaphore, throttler, pc, attempt, gathered,
               results, bpc, requests, last_status, delay, overtaken>>

VARIABLES
    \* ---- group resolution and secure search (03_Upload_PDF_Permissions) ----
    now,                    \* datetime.now(), in minutes
    group_cache,            \* EntraIDAuthManager._group_cache, per user
    document_access_groups, \* settings.document_access_groups_list
    call,                   \* the last get_user_groups execution and its outcome
    search                  \* the last search / get_document_by_id and its outcome

VARIABLES
    tick                    \* minutes the modelled clock advances per step

searchVars == <<now, tick, group_cache, document_access_groups, call, search>>

VARIABLES
    \* ---- generate_security_filter applied to one input ----
    filter_input,           \* the list user_accessible_groups
    filter_doc,             \* a document of the index
    filter_output,          \* the filter returned
    filter_pc

filterVars == <<filter_input, filter_doc, filter_output, filter_pc>>

VARIABLES
    \* ---- one upload_documents call (search_uploader.py) ----
    up_chunks,              \* the argument chunks
    up_outcome,             \* per chunk, how its own embedding ended (history)
    up_embeddings,          \* the argument embeddings
    documents,              \* the documents prepared for upload
    skipped_count,
    next_batch,             \* loop variable i of the batch loop
    up_result,              \* the dictionary results
    sent,                   \* every document handed to the index so far
    index_docs,             \* the index: document stored per key
    up_pc

VARIABLES
    \* ---- what the upload calls did (history) ----
    batches_sent,           \* the batches of this call, in the order sent
    latest,                 \* per key, the last document the index accepted
    calls                   \* upload_documents calls so far

uploadVars == <<up_chunks, up_outcome, up_embeddings, documents, skipped_count,
                next_batch, up_result, sent, index_docs, up_pc, batches_sent,
                latest, calls>>

VARIABLES
    \* ---- PDFUploadOrchestrator.run (02_Upload_PDF_Images, 04_Upload_PDF_ACL) ----
    orchestrator,           \* "acl" (04 main.py) or "images" (02 main.py)
    run_pc,
    shutdown_event,         \* self.shutdown_event.is_set()
    entered,                \* the pipeline stages entered so far
    finished,               \* how each entered stage ended
    signal_seen,            \* history: <<run_pc, Len(entered)>> when the signal came
    run_result,             \* what run() returns: "True", "False" ("none" before)
    cleaned                 \* _cleanup() has run

runVars == <<orchestrator, run_pc, shutdown_event, entered, finished, signal_seen,
             run_result, cleaned>>

VARIABLES
    \* ---- _process_analysis_response applied to one response text ----
    content,                \* choices[0].message.content, a sequence of tokens
    analysis,               \* what _process_analysis_response returned
    analysis_pc

analysisVars == <<content, analysis, analysis_pc>>

VARIABLES
    \* ---- batch calls running at the same time on one EmbeddingGenerator ----
    max_concurrent_chunks,  \* settings.max_concurrent_chunks
    caller_semaphore,       \* per call: free slots of the semaphore it created
    caller_pc,              \* per call and unit: where the task is
    shared_throttler        \* acquisitions inside the period of self.throttler

callersVars == <<max_concurrent_chunks, caller_semaphore, caller_pc, shared_throttler>>

VARIABLES
    \* ---- _validate_embedding / _prepare_text_for_embedding applied once ----
    variant,                \* "01" (01_Upload_PDF) or "02" (02_Upload_PDF_Images)
    embedding_in,           \* `embedding`: the vector of the response, by component
    text_in,                \* `text`: the text of the unit, character by character
    validated,              \* what _validate_embedding returned
    prepared,               \* what _prepare_text_for_embedding returned
    helper_pc

helperVars == <<variant, embedding_in, text_in, validated, prepared, helper_pc>>

vars == <<batchVars, searchVars, filterVars, uploadVars, runVars,
          analysisVars, callersVars, helperVars>>

\* what the actions of one part leave alone
nonBatchVars == <<searchVars, filterVars, uploadVars, runVars,
    analysisVars, callersVars, helperVars>>
nonSearchVars == <<batchVars, filterVars, uploadVars, runVars,
    analysisVars, callersVars, helperVars>>
nonUploadVars == <<batchVars, searchVars, filterVars, runVars,
    analysisVars, callersVars, helperVars>>
nonRunVars == <<batchVars, searchVars, filterVars, uploadVars,
    analysisVars, callersVars, helperVars>>
nonCallersVars == <<batchVars, searchVars, filterVars, uploadVars, runVars, analysisVars,
    helperVars>>

(***************************************************************************)
(* Batch calls: 01_Upload_PDF/embedding_generator.py,                      *)
(* 02_Upload_PDF_Images/embedding_generator.py, image_analyzer.py          *)
(***************************************************************************)

Units == 1..Len(chunks)

Pending == [tag |-> "pending", chunk_id |-> "", success |-> FALSE,
            embedding |-> <<>>, error |-> ""]

\* EmbeddingResult(chunk_id, embedding, success, error)
EmbeddingResult(id, emb, ok, err) ==
    [tag |-> "result", chunk_id |-> id, success |-> ok, embedding |-> emb,
     error |-> err]

\* an exception that left the task: gather(return_exceptions=True) stores it
Raised(err) ==
    [tag |-> "exception", chunk_id |-> "", success |-> FALSE, embedding |-> <<>>,
     error |-> err]

\* _analyze_single_image returned an ImageAnalysis for image `id`
ImageAnalysis(id) ==
    [tag |-> "analysis", chunk_id |-> id, success |-> TRUE, embedding |-> <<>>,
     error |-> ""]

\* _analyze_single_image returned None
NoneResult ==
    [tag |-> "none", chunk_id |-> "", success |-> FALSE, embedding |-> <<>>,
     error |-> ""]

SeqsUpTo(S, n) == UNION {[1..k -> S] : k \in 0..n}

\* generate_embeddings / analyze_images up to the gather: `if not chunks: return []`,
\* else create the semaphore and one task per unit
StartBatch ==
    /\ bpc = "init"
    /\ IF Len(chunks) = 0
       THEN /\ bpc' = "returned"
            /\ pc' = pc
       ELSE /\ bpc' = "gather"
            /\ pc' = [i \in Units |-> "wait_sem"]
    /\ UNCHANGED <<kind, chunks, limit, semaphore, throttler, attempt, gathered,
                   results, requests, last_status, delay,
                   overtaken>>
    /\ UNCHANGED nonBatchVars

\* faulty variant: a task enters without waiting for a free slot
AcquireSemaphoreNoWait(i) ==
    /\ bpc = "gather"
    /\ pc[i] = "wait_sem"
    /\ semaphore' = semaphore - 1
    /\ pc' = [pc EXCEPT ![i] = IF kind = "embedding" THEN "wait_throttle"
                                ELSE "prepare"]
    /\ UNCHANGED <<kind, chunks, limit, throttler, attempt, gathered, results, bpc,
                   requests, last_status, delay, overtaken>>
    /\ UNCHANGED nonBatchVars

\* `async with semaphore:` entered
AcquireSemaphore(i) ==
    /\ bpc = "gather"
    /\ pc[i] = "wait_sem"
    /\ semaphore > 0
    /\ semaphore' = semaphore - 1
    /\ pc' = [pc EXCEPT ![i] = IF kind = "embedding" THEN "wait_throttle"
                                ELSE "prepare"]
    /\ UNCHANGED <<kind, chunks, limit, throttler, attempt, gathered, results, bpc,
                   requests, last_status, delay, overtaken>>
    /\ UNCHANGED nonBatchVars

\* faulty variant: the outcomes are kept in the order the tasks end
GatherSlotByCompletion(i, p) == 1 + Cardinality({j \in DOMAIN p : p[j] = "done"})

\* asyncio.gather keeps the outcome of a task at the position of the task in
\* its argument list
GatherSlot(i, p) == i

\* faulty variant: a task that ends keeps its semaphore slot
FinishKeepingSlot(i, r) ==
    /\ gathered' = [gathered EXCEPT ![GatherSlot(i, pc)] = r]
    /\ pc' = [pc EXCEPT ![i] = "done"]
    /\ semaphore' = semaphore
    /\ overtaken' = (overtaken \/ \E j \in 1..(i - 1) : pc[j] # "done")

\* the task of unit i ends with outcome r: both context managers exit, the
\* semaphore slot is released
Finish(i, r) ==
    /\ gathered' = [gathered EXCEPT ![GatherSlot(i, pc)] = r]
    /\ pc' = [pc EXCEPT ![i] = "done"]
    /\ semaphore' = semaphore + 1
    /\ overtaken' = (overtaken \/ \E j \in 1..(i - 1) : pc[j] # "done")

\* session.post(self.endpoint_url, json=payload) is called for unit i
IssueRequest(i) ==
    requests' = [requests EXCEPT ![i] = @ + 1]

\* `async with self.throttler:` entered, then `session = await self._get_session()`
\* (outside the try: an error there leaves the task) and the first session.post
AcquireThrottler(i) ==
    /\ kind = "embedding"
    /\ pc[i] = "wait_throttle"
    /\ throttler < RateLimit
    /\ throttler' = throttler + 1
    /\ \/ /\ pc' = [pc EXCEPT ![i] = "inflight"]
          /\ IssueRequest(i)
          /\ UNCHANGED <<semaphore, gathered, overtaken>>
       \/ /\ Finish(i, Raised("session"))
          /\ UNCHANGED requests
    /\ UNCHANGED <<kind, chunks, limit, attempt, results, bpc, last_status, delay>>
    /\ UNCHANGED nonBatchVars

\* the oldest acquisition leaves the Throttler's rolling period
ThrottlerExpire ==
    /\ throttler > 0
    /\ throttler' = throttler - 1
    /\ UNCHANGED <<kind, chunks, limit, semaphore, pc, attempt, gathered, results,
                   bpc, requests, last_status, delay,
                   overtaken>>
    /\ UNCHANGED nonBatchVars

\* the text of the failure an attempt ends the task with
FailureText(resp) ==
    CASE resp = "429" -> "Rate limit exceeded"
      [] resp = "5xx" -> "HTTP 5xx"
      [] resp = "4xx" -> "HTTP 4xx"
      [] resp = "client_error" -> "HTTP client error"
      [] resp = "error" -> "Unexpected error"
      [] OTHER -> "Unknown error"

\* faulty variant: the last attempt's exception is raised again
FinalFailureRaising(id, resp) ==
    IF resp \in {"client_error", "error"}
    THEN Raised(FailureText(resp))
    ELSE EmbeddingResult(id, <<>>, FALSE, FailureText(resp))

\* what the last pass of the loop returns for a failed attempt (and, for a 200
\* with an unusable body, the return after the loop)
FinalFailure(id, resp) == EmbeddingResult(id, <<>>, FALSE, FailureText(resp))

Min(a, b) == IF a < b THEN a ELSE b

\* faulty variant: the delay does not grow with the attempt
SleepDelayConstant(resp, k) == retry_delay

\* the argument of asyncio.sleep after failed attempt k:
\* min(self.retry_delay * (2 ** attempt), 60) after a 429,
\* self.retry_delay * (2 ** attempt) otherwise
SleepDelay(resp, k) ==
    IF resp = "429" THEN Min(retry_delay * 2^k, 60) ELSE retry_delay * 2^k

\* one pass of `for attempt in range(self.max_retries)` after the response (or
\* the error) of session.post arrived
EmbeddingResponse(i, resp) ==
    /\ kind = "embedding"
    /\ pc[i] = "inflight"
    /\ IF resp = "ok"
       THEN /\ Finish(i, EmbeddingResult(chunks[i], <<1, 2>>, TRUE, ""))
            /\ last_status' = [last_status EXCEPT ![i] = resp]
            /\ UNCHANGED <<attempt, requests, delay>>
       ELSE IF attempt[i] < max_retries - 1
       THEN \* a 200 with an unusable body falls through to the next pass at
            \* once; every other failure sleeps first
            /\ IF resp = "bad_body"
               THEN /\ attempt' = [attempt EXCEPT ![i] = @ + 1]
                    /\ pc' = pc
                    /\ IssueRequest(i)
                    /\ UNCHANGED <<last_status, delay>>
               ELSE /\ pc' = [pc EXCEPT ![i] = "backoff"]
                    /\ attempt' = attempt
                    /\ last_status' = [last_status EXCEPT ![i] = resp]
                    /\ delay' = [delay EXCEPT ![i] = SleepDelay(resp, attempt[i])]
                    /\ UNCHANGED requests
            /\ UNCHANGED <<semaphore, gathered, overtaken>>
       ELSE /\ Finish(i, FinalFailure(chunks[i], resp))
            /\ last_status' = [last_status EXCEPT ![i] = resp]
            /\ UNCHANGED <<attempt, requests, delay>>
    /\ UNCHANGED <<kind, chunks, limit, throttler, results, bpc>>
    /\ UNCHANGED nonBatchVars

\* asyncio.sleep(delay) is over: next pass of the loop, next session.post
BackoffOver(i) ==
    /\ kind = "embedding"
    /\ pc[i] = "backoff"
    /\ attempt' = [attempt EXCEPT ![i] = @ + 1]
    /\ pc' = [pc EXCEPT ![i] = "inflight"]
    /\ IssueRequest(i)
    /\ last_status' = [last_status EXCEPT ![i] = ""]
    /\ delay' = [delay EXCEPT ![i] = 0]
    /\ UNCHANGED <<kind, chunks, limit, semaphore, throttler, gathered, results, bpc,
                   overtaken>>
    /\ UNCHANGED nonBatchVars

\* _analyze_single_image up to session.post: no base64 data or an exception
\* returns None
VisionPrepare(i) ==
    /\ kind = "vision"
    /\ pc[i] = "prepare"
    /\ \/ /\ pc' = [pc EXCEPT ![i] = "inflight"]
          /\ UNCHANGED <<semaphore, gathered, overtaken>>
       \/ Finish(i, NoneResult)
    /\ UNCHANGED <<kind, chunks, limit, throttler, attempt, results, bpc,
                   requests, last_status, delay>>
    /\ UNCHANGED nonBatchVars

\* the response of the vision call: 200 with content gives an ImageAnalysis,
\* everything else None
VisionResponse(i, resp) ==
    /\ kind = "vision"
    /\ pc[i] = "inflight"
    /\ Finish(i, IF resp = "ok" THEN ImageAnalysis(chunks[i]) ELSE NoneResult)
    /\ UNCHANGED <<kind, chunks, limit, throttler, attempt, results, bpc,
                   requests, last_status, delay>>
    /\ UNCHANGED nonBatchVars

RECURSIVE CollateEmbeddingsDropping(_, _)
\* faulty variant: a task that raised is logged and left out of the list
CollateEmbeddingsDropping(res, src) ==
    IF Len(res) = 0 THEN <<>>
    ELSE LET rest == CollateEmbeddingsDropping(Tail(res), Tail(src))
         IN IF Head(res).tag = "exception" THEN rest ELSE <<Head(res)>> \o rest

\* generate_embeddings / _execute_embedding_tasks after the gather: an exception
\* becomes a failed EmbeddingResult with the id of the unit at that position
CollateEmbeddings(res, src) ==
    [i \in 1..Len(res) |->
        IF res[i].tag = "exception"
        THEN EmbeddingResult(src[i], <<>>, FALSE, res[i].error)
        ELSE res[i]]

RECURSIVE CollateAnalyses(_)
\* analyze_images after the gather: exceptions and None are left out
CollateAnalyses(res) ==
    IF Len(res) = 0 THEN <<>>
    ELSE IF Head(res).tag \in {"exception", "none"}
         THEN CollateAnalyses(Tail(res))
         ELSE <<Head(res)>> \o CollateAnalyses(Tail(res))

\* gather returned: every task is done; the batch call builds and returns its list
Collate ==
    /\ bpc = "gather"
    /\ \A i \in Units : pc[i] = "done"
    /\ results' = IF kind = "embedding" THEN CollateEmbeddings(gathered, chunks)
                  ELSE CollateAnalyses(gathered)
    /\ bpc' = "returned"
    /\ UNCHANGED <<kind, chunks, limit, semaphore, throttler, pc, attempt, gathered,
                   requests, last_status, delay,
                   overtaken>>
    /\ UNCHANGED nonBatchVars

BatchIdle ==
    /\ kind = "embedding"
    /\ chunks = <<>>
    /\ limit = 1
    /\ semaphore = 1
    /\ throttler = 0
    /\ pc = <<>>
    /\ attempt = <<>>
    /\ gathered = <<>>
    /\ results = <<>>
    /\ bpc = "idle"
    /\ requests = <<>>
    /\ last_status = <<>>
    /\ delay = <<>>
    /\ overtaken = FALSE

(***************************************************************************)
(* Security filter: 03_Upload_PDF_Permissions/entraid_auth.py              *)
(* A filter string is modelled as the sequence of its OData tokens.        *)
(***************************************************************************)
Groups == {"g1", "g2", "no-access"}

Tok(t, v) == [t |-> t, v |-> v]
LP == Tok("(", "")
RP == Tok(")", "")
AND == Tok("and", "")
OR == Tok("or", "")
\* document_groups/any(g: g eq '<group_id>')
AnyClause(group_id) == Tok("any", group_id)

RECURSIVE JoinOr(_)
\* " or ".join(group_filters)
JoinOr(group_filters) ==
    IF Len(group_filters) = 1 THEN <<group_filters[1]>>
    ELSE <<group_filters[1], OR>> \o JoinOr(Tail(group_filters))

\* faulty variant: only the first group of the list is used
generate_security_filter_first_only(user_accessible_groups) ==
    IF Len(user_accessible_groups) = 0 THEN <<AnyClause("no-access")>>
    ELSE <<AnyClause(user_accessible_groups[1])>>

generate_security_filter(user_accessible_groups) ==
    IF Len(user_accessible_groups) = 0
    THEN <<AnyClause("no-access")>>
    ELSE JoinOr([i \in 1..Len(user_accessible_groups) |->
                    AnyClause(user_accessible_groups[i])])

(***************************************************************************)
(* The search service's reading of a filter: OData, `and` binds tighter    *)
(* than `or`, parentheses group. A filter that does not parse is rejected. *)
(***************************************************************************)

\* the value of one comparison on one document
AtomHolds(tk, doc) ==
    CASE tk.t = "any" -> tk.v \in doc.document_groups
      [] tk.t = "page" -> tk.v = doc.page_number
      [] tk.t = "id" -> tk.v = doc.id
      [] OTHER -> TRUE

ParseFail == [ok |-> FALSE, val |-> FALSE, pos |-> 0]

RECURSIVE ParseOr(_, _, _), ParseOrRest(_, _, _, _), ParseAnd(_, _, _)
RECURSIVE ParseAndRest(_, _, _, _), ParsePrimary(_, _, _)

ParsePrimary(toks, pos, doc) ==
    IF pos > Len(toks) THEN ParseFail
    ELSE IF toks[pos].t = "("
    THEN LET r == ParseOr(toks, pos + 1, doc)
         IN IF r.ok /\ r.pos <= Len(toks) /\ toks[r.pos].t = ")"
            THEN [ok |-> TRUE, val |-> r.val, pos |-> r.pos + 1]
            ELSE ParseFail
    ELSE IF toks[pos].t \in {"any", "page", "id", "true"}
    THEN [ok |-> TRUE, val |-> AtomHolds(toks[pos], doc), pos |-> pos + 1]
    ELSE ParseFail

ParseAndRest(toks, pos, doc, acc) ==
    IF pos <= Len(toks) /\ toks[pos].t = "and"
    THEN LET r == ParsePrimary(toks, pos + 1, doc)
         IN IF r.ok THEN ParseAndRest(toks, r.pos, doc, acc /\ r.val) ELSE ParseFail
    ELSE [ok |-> TRUE, val |-> acc, pos |-> pos]

ParseAnd(toks, pos, doc) ==
    LET r == ParsePrimary(toks, pos, doc)
    IN IF r.ok THEN ParseAndRest(toks, r.pos, doc, r.val) ELSE ParseFail

ParseOrRest(toks, pos, doc, acc) ==
    IF pos <= Len(toks) /\ toks[pos].t = "or"
    THEN LET r == ParseAnd(toks, pos + 1, doc)
         IN IF r.ok THEN ParseOrRest(toks, r.pos, doc, acc \/ r.val) ELSE ParseFail
    ELSE [ok |-> TRUE, val |-> acc, pos |-> pos]

ParseOr(toks, pos, doc) ==
    LET r == ParseAnd(toks, pos, doc)
    IN IF r.ok THEN ParseOrRest(toks, r.pos, doc, r.val) ELSE ParseFail

\* the filter is a well-formed expression
FilterParses(toks, doc) ==
    LET r == ParseOr(toks, 1, doc) IN r.ok /\ r.pos = Len(toks) + 1

\* the filter selects the document
FilterMatches(toks, doc) ==
    LET r == ParseOr(toks, 1, doc) IN r.ok /\ r.pos = Len(toks) + 1 /\ r.val

(***************************************************************************)
(* generate_security_filter on its own: every input list, every document   *)
(***************************************************************************)
FilterIdle ==
    /\ filter_input = <<>>
    /\ filter_doc = [id |-> "", document_groups |-> {}, page_number |-> ""]
    /\ filter_output = <<>>
    /\ filter_pc = "idle"

BuildFilter ==
    /\ filter_pc = "input"
    /\ filter_output' = generate_security_filter(filter_input)
    /\ filter_pc' = "built"
    /\ UNCHANGED <<filter_input, filter_doc>>
    /\ UNCHANGED <<batchVars, searchVars, uploadVars, runVars, analysisVars, callersVars,
                   helperVars>>

(***************************************************************************)
(* Group resolution: 03_Upload_PDF_Permissions/entraid_auth.py             *)
(***************************************************************************)
Users == {"u1", "u2"}

NoEntry == [present |-> FALSE, groups |-> {}, timestamp |-> 0]

\* faulty variant: the entry written does not hold the groups delivered
EntryWithoutGroups(g, t) == [present |-> TRUE, groups |-> {}, timestamp |-> t]

\* self._group_cache[cache_key] = {"groups": groups, "timestamp": datetime.now()}
Entry(g, t) == [present |-> TRUE, groups |-> g, timestamp |-> t]

\* GET /users/{id}/memberOf: 200 with the groups, or a failure
GraphResponses ==
    {[status |-> 200, groups |-> g] : g \in {{}, {"g1"}, {"g1", "g2"}}}
        \cup {[status |-> 500, groups |-> {}]}

\* faulty variant: an entry of exactly the expiry age still counts as valid
CacheValidInclusive(entry, t) ==
    entry.present /\ t - entry.timestamp <= cache_expiry

\* `cache_key in self._group_cache` and
\* `datetime.now() - cached_data["timestamp"] < self._cache_expiry`
CacheValid(entry, t) ==
    entry.present /\ t - entry.timestamp < cache_expiry

\* an execution of get_user_groups as its caller sees it (raised, groups) and
\* what it did; n flips with every execution
NoCall == [op |-> "", user |-> "", n |-> 0, hit |-> FALSE, stale |-> FALSE,
           token_calls |-> 0, graph_calls |-> 0, lookup_failed |-> FALSE,
           raised |-> FALSE, groups |-> {}]

\* faulty variant: a failed lookup evicts the user's entry
get_user_groups_evicting(user_id, token_ok, resp) ==
    LET base == [op |-> "get_user_groups", user |-> user_id,
                 stale |-> group_cache[user_id].present
                            /\ ~CacheValid(group_cache[user_id], now)]
    IN IF CacheValid(group_cache[user_id], now)
       THEN base @@ [hit |-> TRUE, token_calls |-> 0, graph_calls |-> 0,
                     lookup_failed |-> FALSE, raised |-> FALSE,
                     groups |-> group_cache[user_id].groups,
                     cache |-> group_cache]
       ELSE IF token_ok /\ resp.status = 200
       THEN base @@ [hit |-> FALSE, token_calls |-> 1, graph_calls |-> 1,
                     lookup_failed |-> FALSE, raised |-> FALSE,
                     groups |-> resp.groups,
                     cache |-> [group_cache EXCEPT
                                   ![user_id] = Entry(resp.groups, now)]]
       ELSE base @@ [hit |-> FALSE, token_calls |-> 1,
                     graph_calls |-> IF token_ok THEN 1 ELSE 0,
                     lookup_failed |-> TRUE, raised |-> TRUE, groups |-> {},
                     cache |-> [group_cache EXCEPT ![user_id] = NoEntry]]

\* get_user_groups(user_id) run at time `now` against `group_cache`, with the
\* outcome of the token acquisition and the answer of the identity graph.
\* The field cache is self._group_cache afterwards; stale tells that an expired
\* entry was found, lookup_failed that the token or the graph request failed.
get_user_groups(user_id, token_ok, resp) ==
    LET base == [op |-> "get_user_groups", user |-> user_id,
                 stale |-> group_cache[user_id].present
                            /\ ~CacheValid(group_cache[user_id], now)]
    IN IF CacheValid(group_cache[user_id], now)
       THEN base @@ [hit |-> TRUE, token_calls |-> 0, graph_calls |-> 0,
                     lookup_failed |-> FALSE, raised |-> FALSE,
                     groups |-> group_cache[user_id].groups,
                     cache |-> group_cache]
       ELSE IF ~token_ok
       THEN base @@ [hit |-> FALSE, token_calls |-> 1, graph_calls |-> 0,
                     lookup_failed |-> TRUE, raised |-> TRUE, groups |-> {},
                     cache |-> group_cache]
       ELSE IF resp.status = 200
       THEN base @@ [hit |-> FALSE, token_calls |-> 1, graph_calls |-> 1,
                     lookup_failed |-> FALSE, raised |-> FALSE,
                     groups |-> resp.groups,
                     cache |-> [group_cache EXCEPT
                                   ![user_id] = Entry(resp.groups, now)]]
       ELSE base @@ [hit |-> FALSE, token_calls |-> 1, graph_calls |-> 1,
                     lookup_failed |-> TRUE, raised |-> TRUE, groups |-> {},
                     cache |-> group_cache]

\* what the caller of get_user_groups sees and what the call did
CallRecord(o) ==
    [op |-> o.op, user |-> o.user, n |-> 1 - call.n, hit |-> o.hit,
     stale |-> o.stale, token_calls |-> o.token_calls,
     graph_calls |-> o.graph_calls, lookup_failed |-> o.lookup_failed,
     raised |-> o.raised, groups |-> o.groups]

\* get_user_accessible_groups given the outcome o of its get_user_groups call:
\* the intersection with the configured groups; `except Exception: return []`
get_user_accessible_groups(o) ==
    [o EXCEPT !.op = "get_user_accessible_groups",
              !.raised = FALSE,
              !.groups = IF o.raised THEN {} ELSE o.groups \cap document_access_groups]

\* validate_user_access(user_id, required_groups) given the outcome o of its
\* get_user_groups call: `if not required_groups: return True` comes before the
\* lookup, `except Exception: return False`
validate_user_access(o, required_groups) ==
    IF required_groups = {} THEN TRUE
    ELSE IF o.raised THEN FALSE
    ELSE o.groups \cap required_groups # {}

RECURSIVE SetToSeq(_)
\* list(set): the elements in some order
SetToSeq(S) ==
    IF S = {} THEN <<>>
    ELSE LET x == CHOOSE y \in S : TRUE IN <<x>> \o SetToSeq(S \ {x})

(***************************************************************************)
(* Secure search: 03_Upload_PDF_Permissions/secure_search.py               *)
(***************************************************************************)
Doc(id, gs, page) == [id |-> id, document_groups |-> gs, page_number |-> page]

\* the documents of the index
Index ==
    {Doc("d1", {"g1"}, "1"), Doc("d2", {"g2"}, "1"), Doc("d3", {"g1", "g2"}, "2"),
     Doc("d4", {}, "1"), Doc("d5", {"no-access"}, "2"), Doc("d6", {"g2"}, "2")}

\* caller-supplied filter_expression values, by name
CallerFilters ==
    [none |-> <<>>,
     page1 |-> <<Tok("page", "1")>>,
     inject |-> <<Tok("true", ""), RP, OR, LP, Tok("true", "")>>,
     broken |-> <<Tok("page", "1"), AND>>]

\* a search: op and arguments, the groups resolved for it, what it called and
\* what it returned; status is "" (none yet), "running", or the kind of return
NoSearch == [op |-> "", search_type |-> "", filter_expression |-> "",
             failed |-> FALSE, accessible |-> {}, embed_calls |-> 0,
             index_queries |-> 0, results |-> {}, count |-> 0, status |-> "",
             \* history: the query embedding failed, the kind of query sent to
             \* the index with its filter, and whether that query failed
             embedding_failed |-> FALSE, executed |-> "", filter_used |-> <<>>,
             index_failed |-> FALSE]

\* f"({security_filter}) and ({filter_expression})" when a filter is given
CombineFilter(security_filter, filter_expression) ==
    IF Len(filter_expression) > 0
    THEN <<LP>> \o security_filter \o <<RP, AND, LP>> \o filter_expression \o <<RP>>
    ELSE security_filter

\* self.search_client.search(filter=...) and _process_search_results: the ids of
\* the documents the filter selects, or an HttpResponseError
IndexQuery(filter, index_ok) ==
    IF index_ok /\ FilterParses(filter, CHOOSE d \in Index : TRUE)
    THEN [ok |-> TRUE, ids |-> {d.id : d \in {x \in Index : FilterMatches(filter, x)}}]
    ELSE [ok |-> FALSE, ids |-> {}]

\* faulty variant: the search goes on with an empty group list
NoAccessibleGroupsIgnored(user_groups) == FALSE

\* `if not user_groups:`
NoAccessibleGroups(user_groups) == user_groups = {}

\* search_with_permissions / get_document_by_id up to the first await after the
\* group resolution; r is what get_user_accessible_groups returned. The field
\* failed is history only (whether the lookup behind r had failed): the code
\* reads r.groups alone.
AfterResolution(op, r) ==
    LET base == [NoSearch EXCEPT !.op = op, !.failed = r.lookup_failed,
                                 !.accessible = r.groups]
    IN IF NoAccessibleGroups(r.groups)
       THEN [base EXCEPT !.status = IF op = "search" THEN "message" ELSE "none"]
       ELSE [base EXCEPT !.status = "running"]

\* self.embedding_generator.generate_embedding(query): the single-item call
\* of the embedding pipeline returns a result that succeeded or failed
generate_embedding(embedding_ok) == [success |-> embedding_ok]

\* faulty variant: a failed query embedding fails the hybrid search too
SearchModeWithoutFallback(search_type, embedding_result) ==
    IF search_type = "text" THEN "text"
    ELSE IF ~embedding_result.success THEN "raise"
    ELSE search_type

\* the query _text_search, _vector_search or _hybrid_search sends to the index
\* ("raise" when none is sent): `if not embedding_result.success` raises in
\* _vector_search and returns _text_search(...) in _hybrid_search
SearchMode(search_type, embedding_result) ==
    IF search_type = "text" THEN "text"
    ELSE IF ~embedding_result.success
         THEN (IF search_type = "hybrid" THEN "text" ELSE "raise")
    ELSE search_type

\* faulty variant: the exception reaches the caller
SearchFailedRaising(sr) == [sr EXCEPT !.status = "raised"]

\* `except Exception as e:` of search_with_permissions: the error dictionary
\* {"results": [], "count": 0, "facets": {}, "error": str(e)}
SearchFailed(sr) == [sr EXCEPT !.results = {}, !.count = 0, !.status = "error"]

\* the rest of search_with_permissions: _vector_search, _text_search or
\* _hybrid_search with the combined filter
search_with_permissions(sr, search_type, fname, embedding_ok, index_ok) ==
    LET embeds == IF search_type = "text" THEN 0 ELSE 1
        base == [sr EXCEPT !.search_type = search_type, !.filter_expression = fname,
                           !.embed_calls = embeds,
                           !.embedding_failed = (embeds = 1 /\ ~embedding_ok)]
        combined == CombineFilter(generate_security_filter(SetToSeq(sr.accessible)),
                                  CallerFilters[fname])
        mode == SearchMode(search_type, generate_embedding(embedding_ok))
        q == IndexQuery(combined, index_ok)
    IN IF mode = "raise"
       THEN SearchFailed(base)
       ELSE IF q.ok
       THEN [base EXCEPT !.index_queries = 1, !.executed = mode,
                         !.filter_used = combined,
                         !.results = q.ids, !.count = Cardinality(q.ids),
                         !.status = "ok"]
       ELSE SearchFailed([base EXCEPT !.index_queries = 1, !.executed = mode,
                                      !.filter_used = combined,
                                      !.index_failed = TRUE])

\* the rest of get_document_by_id: the document or None
get_document_by_id(sr, document_id, index_ok) ==
    LET base == [sr EXCEPT !.filter_expression = document_id]
        filter == <<Tok("id", document_id), AND, LP>>
                      \o generate_security_filter(SetToSeq(sr.accessible)) \o <<RP>>
        q == IndexQuery(filter, index_ok)
    IN IF q.ok /\ q.ids # {}
       THEN [base EXCEPT !.index_queries = 1, !.results = q.ids,
                         !.count = Cardinality(q.ids), !.status = "ok"]
       ELSE [base EXCEPT !.index_queries = 1, !.status = "none"]

SearchIdle ==
    /\ now = 0
    /\ tick = 0
    /\ group_cache = [u \in Users |-> NoEntry]
    /\ document_access_groups = {}
    /\ call = NoCall
    /\ search = NoSearch

\* time passes
Tick ==
    /\ now + tick <= MaxNow
    /\ now' = now + tick
    /\ UNCHANGED <<tick, group_cache, document_access_groups, call, search>>
    /\ UNCHANGED nonSearchVars

\* a caller runs get_user_groups(u)
GetUserGroups(u) ==
    /\ \E token_ok \in BOOLEAN, resp \in GraphResponses :
        LET o == get_user_groups(u, token_ok, resp)
        IN /\ group_cache' = o.cache
           /\ call' = CallRecord(o)
    /\ UNCHANGED <<now, tick, document_access_groups, search>>
    /\ UNCHANGED nonSearchVars

\* a caller runs get_user_accessible_groups(u)
GetUserAccessibleGroups(u) ==
    /\ \E token_ok \in BOOLEAN, resp \in GraphResponses :
        LET o == get_user_groups(u, token_ok, resp)
        IN /\ group_cache' = o.cache
           /\ call' = CallRecord(get_user_accessible_groups(o))
    /\ UNCHANGED <<now, tick, document_access_groups, search>>
    /\ UNCHANGED nonSearchVars

\* search_with_permissions(query, u, ...) or get_document_by_id(id, u) starts:
\* the groups are resolved; with none the call returns at once
StartSearch(u, op) ==
    /\ search.status # "running"
    /\ \E token_ok \in BOOLEAN, resp \in GraphResponses :
        LET o == get_user_groups(u, token_ok, resp)
            r == get_user_accessible_groups(o)
        IN /\ group_cache' = o.cache
           /\ call' = CallRecord(r)
           /\ search' = AfterResolution(op, r)
    /\ UNCHANGED <<now, tick, document_access_groups>>
    /\ UNCHANGED nonSearchVars

\* the search runs its query and returns
FinishSearch ==
    /\ search.status = "running"
    /\ search.op = "search"
    /\ \E st \in {"text", "vector", "hybrid"}, fname \in DOMAIN CallerFilters,
          embedding_ok \in BOOLEAN,
          index_ok \in BOOLEAN :
        search' = search_with_permissions(search, st, fname, embedding_ok, index_ok)
    /\ UNCHANGED <<now, tick, group_cache, document_access_groups, call>>
    /\ UNCHANGED nonSearchVars

\* get_document_by_id runs its query and returns
FinishGetDocument ==
    /\ search.status = "running"
    /\ search.op = "get"
    /\ \E id \in {d.id : d \in Index}, index_ok \in BOOLEAN :
        search' = get_document_by_id(search, id, index_ok)
    /\ UNCHANGED <<now, tick, group_cache, document_access_groups, call>>
    /\ UNCHANGED nonSearchVars

(***************************************************************************)
(* Chunk ids: 03_Upload_PDF_Permissions/pdf_processor.py                   *)
(* A file name is the sequence of its characters ("pdf" stands for the     *)
(* extension's letters).                                                   *)
(***************************************************************************)
\* the names of the PDF files of the directory
FileNames ==
    {<<"a", ".", "pdf">>, <<"b", ".", "pdf">>, <<"a", ".", "b", ".", "pdf">>,
     <<"a", "_", "b", ".", "pdf">>}

\* re.sub(r'[^a-zA-Z0-9_\-=]', '_', filename)
ReplaceInvalid(name) ==
    [i \in 1..Len(name) |-> IF name[i] \in {".", " "} THEN "_" ELSE name[i]]

RECURSIVE CollapseUnderscores(_)
\* re.sub(r'_+', '_', sanitized)
CollapseUnderscores(name) ==
    IF Len(name) < 2 THEN name
    ELSE IF name[1] = "_" /\ name[2] = "_"
         THEN CollapseUnderscores(Tail(name))
         ELSE <<name[1]>> \o CollapseUnderscores(Tail(name))

RECURSIVE StripLeading(_), StripTrailing(_)
StripLeading(name) ==
    IF Len(name) > 0 /\ name[1] = "_" THEN StripLeading(Tail(name)) ELSE name

StripTrailing(name) ==
    IF Len(name) > 0 /\ name[Len(name)] = "_"
    THEN StripTrailing(SubSeq(name, 1, Len(name) - 1))
    ELSE name

\* _sanitize_filename_for_key
SanitizeFilenameForKey(filename) ==
    StripTrailing(StripLeading(CollapseUnderscores(ReplaceInvalid(filename))))

\* chunk_id = f"{sanitized_filename}_{page_num}_{chunk_index}": the three parts
\* (the name part ends in the extension, so the joined string splits back)
ChunkId(file_name, page_num, chunk_index) ==
    <<SanitizeFilenameForKey(file_name), page_num, chunk_index>>

\* DocumentChunk: its content is told apart by where it comes from
DocumentChunk(file_name, page_num, chunk_index) ==
    [id |-> ChunkId(file_name, page_num, chunk_index),
     content |-> <<file_name, page_num, chunk_index>>,
     file_name |-> file_name, page_number |-> page_num,
     chunk_index |-> chunk_index]

\* the chunks _create_chunks_from_pages can produce
ChunkSources == {DocumentChunk(f, 1, c) : f \in FileNames, c \in {0, 1}}

(***************************************************************************)
(* Index upload: 03_Upload_PDF_Permissions/search_uploader.py              *)
(***************************************************************************)
\* the vector the embedding call returned for the chunk at position i
VectorOf(i) == <<i>>

\* the EmbeddingResult the generator returned for the chunk at position i
OwnResult(chs, outcome, i) ==
    IF outcome[i] = "ok"
    THEN EmbeddingResult(chs[i].id, VectorOf(i), TRUE, "")
    ELSE EmbeddingResult(chs[i].id, <<>>, FALSE, "failed")

RECURSIVE ResultsOf(_, _, _)
\* the list of results handed over: none for a chunk whose result is missing
ResultsOf(chs, outcome, i) ==
    IF i > Len(chs) THEN <<>>
    ELSE (IF outcome[i] = "missing" THEN <<>> ELSE <<OwnResult(chs, outcome, i)>>)
            \o ResultsOf(chs, outcome, i + 1)

NoResult == [tag |-> "absent", chunk_id |-> <<>>, success |-> FALSE,
             embedding |-> <<>>, error |-> ""]

\* embedding_map = {result.chunk_id: result for result in embeddings} and
\* embedding_map.get(chunk.id): the last result with the id, or None
EmbeddingMapGet(embeddings, id) ==
    LET at == {j \in 1..Len(embeddings) : embeddings[j].chunk_id = id}
    IN IF at = {} THEN NoResult
       ELSE embeddings[CHOOSE j \in at : \A k \in at : k <= j]

\* `if not embedding_result or not embedding_result.success:`
SkipChunk(embedding_result) ==
    embedding_result.tag = "absent" \/ ~embedding_result.success

RECURSIVE PrepareDocuments(_, _)
\* the loop `for chunk in chunks:` building `documents`
PrepareDocuments(chs, embeddings) ==
    IF Len(chs) = 0 THEN <<>>
    ELSE LET chunk == Head(chs)
             embedding_result == EmbeddingMapGet(embeddings, chunk.id)
             rest == PrepareDocuments(Tail(chs), embeddings)
         IN IF SkipChunk(embedding_result) THEN rest
            ELSE <<[id |-> chunk.id, content |-> chunk.content,
                    embedding |-> embedding_result.embedding]>> \o rest

InjectiveSeqs(S, n) ==
    {q \in SeqsUpTo(S, n) : \A i, j \in 1..Len(q) : i # j => q[i] # q[j]}

NoUploadResult == [success |-> 0, failed |-> 0, errors |-> <<>>]

UploadIdle ==
    /\ up_chunks = <<>>
    /\ up_outcome = <<>>
    /\ up_embeddings = <<>>
    /\ documents = <<>>
    /\ skipped_count = 0
    /\ next_batch = 0
    /\ up_result = NoUploadResult
    /\ sent = {}
    /\ index_docs = {}
    /\ up_pc = "idle"
    /\ batches_sent = <<>>
    /\ latest = {}
    /\ calls = 0

\* upload_documents up to the batch loop
PrepareUpload ==
    /\ up_pc = "called"
    /\ IF Len(up_chunks) = 0 \/ Len(up_embeddings) = 0
       THEN /\ up_pc' = "returned"
            /\ UNCHANGED <<documents, skipped_count, up_result>>
       ELSE LET docs == PrepareDocuments(up_chunks, up_embeddings)
            IN /\ documents' = docs
               /\ skipped_count' = Len(up_chunks) - Len(docs)
               /\ IF Len(docs) = 0
                  THEN /\ up_result' = [success |-> 0, failed |-> Len(up_chunks),
                                        errors |-> <<"No valid documents">>]
                       /\ up_pc' = "returned"
                  ELSE /\ up_result' = NoUploadResult
                       /\ up_pc' = "batches"
    /\ UNCHANGED <<up_chunks, up_outcome, up_embeddings, next_batch, sent,
                   index_docs, batches_sent, latest, calls>>
    /\ UNCHANGED nonUploadVars

\* faulty variant: a batch reaches one document into the next one
BatchOverlapping(docs, i) ==
    SubSeq(docs, i + 1, IF i + BatchSize + 1 < Len(docs) THEN i + BatchSize + 1 ELSE Len(docs))

\* documents[i:i + batch_size]
Batch(docs, i) ==
    SubSeq(docs, i + 1, IF i + BatchSize < Len(docs) THEN i + BatchSize ELSE Len(docs))

\* faulty variant: a stored key is never written again
UpsertKeepingStored(stored, accepted) ==
    stored \cup {accepted[k] : k \in {j \in 1..Len(accepted) :
                                       /\ \A d \in stored : d.id # accepted[j].id
                                       /\ \A m \in 1..(j - 1) :
                                            accepted[m].id # accepted[j].id}}

\* the index after an upload of the accepted documents: one document per key,
\* a document with a stored key replaces it
Upsert(stored, accepted) ==
    {d \in stored : \A k \in 1..Len(accepted) : accepted[k].id # d.id}
        \cup {accepted[k] : k \in {j \in 1..Len(accepted) :
                                    \A m \in (j + 1)..Len(accepted) :
                                        accepted[m].id # accepted[j].id}}

RECURSIVE SelectSeq2(_, _)
\* the documents of the batch at the positions of `keep`
SelectSeq2(batch, keep) ==
    IF Len(batch) = 0 THEN <<>>
    ELSE (IF 1 \in keep THEN <<Head(batch)>> ELSE <<>>)
            \o SelectSeq2(Tail(batch), {k - 1 : k \in keep \ {1}})

RECURSIVE RecordAccepted(_, _)
\* the last accepted document per key after the index accepted these, in
\* order, each with the content it took the place of (<<>> for a new key)
RecordAccepted(last, accepted) ==
    IF Len(accepted) = 0 THEN last
    ELSE LET h == Head(accepted)
             old == {r \in last : r.doc.id = h.id}
             previous == IF old = {} THEN <<>> ELSE (CHOOSE r \in old : TRUE).doc.content
         IN RecordAccepted((last \ old) \cup {[doc |-> h, previous |-> previous]},
                           Tail(accepted))

\* faulty variant: one rejected document fails the documents sent with it
PerDocumentResultFailingAll(accepted, refused) ==
    [success |-> IF Len(refused) = 0 THEN Len(accepted) ELSE 0,
     failed |-> IF Len(refused) = 0 THEN 0 ELSE Len(accepted) + Len(refused),
     errors |-> [k \in 1..Len(refused) |-> <<"Document", refused[k].id>>]]

\* the loop over the per-document results of a batch
PerDocumentResult(accepted, refused) ==
    [success |-> Len(accepted),
     failed |-> Len(refused),
     errors |-> [k \in 1..Len(refused) |-> <<"Document", refused[k].id>>]]

\* one pass of the batch loop: _upload_batch, where the request raises or the
\* service answers with a status per document, and the sums
UploadBatch ==
    /\ up_pc = "batches"
    /\ next_batch < Len(documents)
    /\ LET batch == Batch(documents, next_batch)
           number == (next_batch \div BatchSize) + 1
       IN /\ sent' = sent \cup {batch[k] : k \in 1..Len(batch)}
          /\ batches_sent' = Append(batches_sent, batch)
          /\ \E rejected \in SUBSET (1..Len(batch)) :
               LET accepted == SelectSeq2(batch, (1..Len(batch)) \ rejected)
                   refused == SelectSeq2(batch, rejected)
               IN /\ index_docs' = Upsert(index_docs, accepted)
                  /\ latest' = RecordAccepted(latest, accepted)
                  /\ \/ \* the request raised (before the service got it, with
                        \* everything rejected, or after it had answered):
                        \* except Exception counts the whole batch as failed
                        /\ up_result' = [up_result EXCEPT
                                            !.failed = @ + Len(batch),
                                            !.errors = Append(@, <<"Batch", number>>)]
                     \/ \* one result per document
                        LET batch_result == PerDocumentResult(accepted, refused)
                        IN up_result' = [up_result EXCEPT
                                           !.success = @ + batch_result.success,
                                           !.failed = @ + batch_result.failed,
                                           !.errors = @ \o batch_result.errors]
    /\ next_batch' = next_batch + BatchSize
    /\ UNCHANGED <<up_chunks, up_outcome, up_embeddings, documents, skipped_count,
                   up_pc, calls>>
    /\ UNCHANGED nonUploadVars

\* the batch loop is over: return results
ReturnUpload ==
    /\ up_pc = "batches"
    /\ next_batch >= Len(documents)
    /\ up_pc' = "returned"
    /\ UNCHANGED <<up_chunks, up_outcome, up_embeddings, documents, skipped_count,
                   next_batch, up_result, sent, index_docs, batches_sent, latest,
                   calls>>
    /\ UNCHANGED nonUploadVars

\* the chunks of the files that are ingested again and again
RepublishSources ==
    {DocumentChunk(f, 1, 0) :
        f \in {<<"a", ".", "b", ".", "pdf">>, <<"a", "_", "b", ".", "pdf">>,
               <<"b", ".", "pdf">>}}

\* the arguments of the call of ingestion run number rev, which reads the
\* files as they are at that run
CallArguments(chs, outcome, rev) ==
    /\ up_chunks' = [i \in 1..Len(chs) |-> [chs[i] EXCEPT !.content = Append(@, rev)]]
    /\ up_outcome' = outcome
    /\ up_embeddings' = ResultsOf(chs, outcome, 1)

\* upload_documents is called again, the index keeps what it holds
NextUpload ==
    /\ up_pc = "returned"
    /\ calls < MaxCalls
    /\ \E chs \in InjectiveSeqs(RepublishSources, MaxChunks) :
         \E outcome \in [1..Len(chs) -> {"ok", "failed"}] :
            CallArguments(chs, outcome, calls + 1)
    /\ documents' = <<>>
    /\ skipped_count' = 0
    /\ next_batch' = 0
    /\ up_result' = NoUploadResult
    /\ sent' = {}
    /\ batches_sent' = <<>>
    /\ up_pc' = "called"
    /\ calls' = calls + 1
    /\ UNCHANGED <<index_docs, latest>>
    /\ UNCHANGED nonUploadVars

(***************************************************************************)
(* Specifications                                                          *)
(***************************************************************************)
\* one batch call of the embedding generator or the image analyzer
(***************************************************************************)
(* Several batch calls at once on one generator:                           *)
(* 01_Upload_PDF/embedding_generator.py                                    *)
(***************************************************************************)
Callers == {"a", "b"}

CallersIdle ==
    /\ max_concurrent_chunks = 1
    /\ caller_semaphore = [c \in Callers |-> 1]
    /\ caller_pc = [c \in Callers |-> <<>>]
    /\ shared_throttler = 0

\* `async with semaphore:` entered, on the semaphore of the task's own call
CallerAcquireSemaphore(c, i) ==
    /\ caller_pc[c][i] = "wait_sem"
    /\ caller_semaphore[c] > 0
    /\ caller_semaphore' = [caller_semaphore EXCEPT ![c] = @ - 1]
    /\ caller_pc' = [caller_pc EXCEPT ![c][i] = "wait_throttle"]
    /\ UNCHANGED <<max_concurrent_chunks, shared_throttler>>
    /\ UNCHANGED nonCallersVars

\* `async with self.throttler:` entered, the request goes out
CallerAcquireThrottler(c, i) ==
    /\ caller_pc[c][i] = "wait_throttle"
    /\ shared_throttler < RateLimit
    /\ shared_throttler' = shared_throttler + 1
    /\ caller_pc' = [caller_pc EXCEPT ![c][i] = "inflight"]
    /\ UNCHANGED <<max_concurrent_chunks, caller_semaphore>>
    /\ UNCHANGED nonCallersVars

\* the oldest acquisition leaves the Throttler's rolling period
SharedThrottlerExpire ==
    /\ shared_throttler > 0
    /\ shared_throttler' = shared_throttler - 1
    /\ UNCHANGED <<max_concurrent_chunks, caller_semaphore, caller_pc>>
    /\ UNCHANGED nonCallersVars

\* the task returns its EmbeddingResult and leaves both context managers
CallerFinish(c, i) ==
    /\ caller_pc[c][i] = "inflight"
    /\ caller_pc' = [caller_pc EXCEPT ![c][i] = "done"]
    /\ caller_semaphore' = [caller_semaphore EXCEPT ![c] = @ + 1]
    /\ UNCHANGED <<max_concurrent_chunks, shared_throttler>>
    /\ UNCHANGED nonCallersVars

(***************************************************************************)
(* Vision responses: 02_Upload_PDF_Images/image_analyzer.py                *)
(* A response text is a sequence of tokens: "{" and "}", "d" for a member  *)
(* "description": "D", "c" for a member "confidence_score": 0.95, and "x"  *)
(* for any other text. Confidence scores are in hundredths.                *)
(***************************************************************************)

\* content.find('{'): the index of the first "{" (from 0), or -1
Find(text, tok) ==
    IF \E k \in 1..Len(text) : text[k] = tok
    THEN (CHOOSE k \in 1..Len(text) :
            text[k] = tok /\ \A j \in 1..(k - 1) : text[j] # tok) - 1
    ELSE -1

\* content.rfind('}'): the index of the last "}" (from 0), or -1
RFind(text, tok) ==
    IF \E k \in 1..Len(text) : text[k] = tok
    THEN (CHOOSE k \in 1..Len(text) :
            text[k] = tok /\ \A j \in (k + 1)..Len(text) : text[j] # tok) - 1
    ELSE -1

\* json.loads: the dictionary of a JSON object, or a JSONDecodeError
JsonLoads(text) ==
    IF /\ Len(text) >= 2
       /\ text[1] = "{"
       /\ text[Len(text)] = "}"
       /\ \A k \in 2..(Len(text) - 1) : text[k] \in {"d", "c"}
    THEN [ok |-> TRUE,
          description |-> IF \E k \in 1..Len(text) : text[k] = "d"
                          THEN <<"D">> ELSE <<>>,
          has_confidence |-> \E k \in 1..Len(text) : text[k] = "c"]
    ELSE [ok |-> FALSE, description |-> <<>>, has_confidence |-> FALSE]

NoAnalysis == [tag |-> "none", description |-> <<>>, confidence_score |-> 0]

\* faulty variant: a text without a JSON object gives no analysis
PlainTextAnalysisFailing(text) == NoAnalysis

\* Fallback: create analysis from plain text
PlainTextAnalysis(text) ==
    [tag |-> "analysis", description |-> text, confidence_score |-> 80]

\* _process_analysis_response for the response text `text`
process_analysis_response(text) ==
    IF Len(text) = 0 THEN NoAnalysis
    ELSE LET json_start == Find(text, "{")
             json_end == RFind(text, "}") + 1
         IN IF json_start # -1 /\ json_end # -1
            THEN LET analysis_data == JsonLoads(SubSeq(text, json_start + 1,
                                                          Min(json_end, Len(text))))
                 IN IF analysis_data.ok
                    THEN [tag |-> "analysis",
                          description |-> analysis_data.description,
                          confidence_score |-> IF analysis_data.has_confidence
                                               THEN 95 ELSE 80]
                    ELSE PlainTextAnalysis(text)
            ELSE PlainTextAnalysis(text)

AnalysisIdle ==
    /\ content = <<>>
    /\ analysis = NoAnalysis
    /\ analysis_pc = "idle"

ProcessAnalysisResponse ==
    /\ analysis_pc = "called"
    /\ analysis' = process_analysis_response(content)
    /\ analysis_pc' = "returned"
    /\ UNCHANGED content
    /\ UNCHANGED <<batchVars, searchVars, filterVars, uploadVars, runVars, callersVars,
                   helperVars>>

(***************************************************************************)
(* Helper functions of EmbeddingGenerator: _validate_embedding and         *)
(* _prepare_text_for_embedding, 01_Upload_PDF and 02_Upload_PDF_Images.    *)
(* A component of a vector is "x" (a finite number), "nan" or "inf"; a     *)
(* character of a text is " " (whitespace) or a letter.                    *)
(***************************************************************************)
\* _validate_embedding: `if not embedding: return False`, then the dimension
\* check and the NaN / infinity check, both commented out in 01_Upload_PDF
validate_embedding(v, emb) ==
    IF Len(emb) = 0 THEN FALSE
    ELSE IF v = "02" /\ Len(emb) # vector_dimensions THEN FALSE
    ELSE IF v = "02" /\ \E k \in 1..Len(emb) : emb[k] \in {"nan", "inf"} THEN FALSE
    ELSE TRUE

\* faulty variant: the text is stripped and never cut
prepare_text_for_embedding_uncut(txt) ==
    LET kept == {k \in 1..Len(txt) : txt[k] # " "}
    IN IF kept = {} THEN <<>>
       ELSE SubSeq(txt, CHOOSE k \in kept : \A m \in kept : k <= m,
                        CHOOSE k \in kept : \A m \in kept : m <= k)

\* _prepare_text_for_embedding: text.strip(), then text[:max_chars] when it is
\* longer than max_chars
prepare_text_for_embedding(txt) ==
    LET kept == {k \in 1..Len(txt) : txt[k] # " "}
        stripped == IF kept = {} THEN <<>>
                    ELSE SubSeq(txt, CHOOSE k \in kept : \A m \in kept : k <= m,
                                     CHOOSE k \in kept : \A m \in kept : m <= k)
    IN IF Len(stripped) > max_chars THEN SubSeq(stripped, 1, max_chars) ELSE stripped

HelpersIdle ==
    /\ variant = "01"
    /\ embedding_in = <<>>
    /\ text_in = <<>>
    /\ validated = FALSE
    /\ prepared = <<>>
    /\ helper_pc = "idle"

\* `if self._validate_embedding(embedding):` in the 200 branch of
\* _generate_single_embedding
ValidateEmbedding ==
    /\ helper_pc = "validate"
    /\ validated' = validate_embedding(variant, embedding_in)
    /\ helper_pc' = "validated"
    /\ UNCHANGED <<variant, embedding_in, text_in, prepared>>
    /\ UNCHANGED <<batchVars, searchVars, filterVars, uploadVars, runVars, analysisVars,
                   callersVars>>

\* `prepared_text = self._prepare_text_for_embedding(chunk.content)`
PrepareTextForEmbedding ==
    /\ helper_pc = "prepare"
    /\ prepared' = prepare_text_for_embedding(text_in)
    /\ helper_pc' = "prepared"
    /\ UNCHANGED <<variant, embedding_in, text_in, validated>>
    /\ UNCHANGED <<batchVars, searchVars, filterVars, uploadVars, runVars, analysisVars,
                   callersVars>>

(***************************************************************************)
(* The orchestrator: 04_Upload_PDF_ACL/main.py, 02_Upload_PDF_Images/main.py *)
(***************************************************************************)

\* the pipeline stages of run(), in the order of the code
Stages(o) ==
    IF o = "acl" THEN <<"index", "pdf", "embedding", "upload">>
    ELSE <<"pdf", "index", "embedding", "upload">>

\* the stages whose empty or False result makes run() return False
StageChecked(o, stage) ==
    IF o = "acl" THEN stage \in {"index", "pdf", "embedding"}
    ELSE stage \in {"pdf", "index"}

RunIdle ==
    /\ orchestrator = "acl"
    /\ run_pc = "idle"
    /\ shutdown_event = FALSE
    /\ entered = <<>>
    /\ finished = <<>>
    /\ signal_seen = <<>>
    /\ run_result = "none"
    /\ cleaned = FALSE

\* `return False` or `return True` inside try: the finally clause runs first
ReturnFromRun(value) ==
    /\ run_result' = value
    /\ run_pc' = "cleanup"

\* signal_handler: self.shutdown_event.set()
Signal ==
    /\ run_pc \notin {"idle", "returned"}
    /\ ~shutdown_event
    /\ shutdown_event' = TRUE
    /\ signal_seen' = <<run_pc, Len(entered)>>
    /\ UNCHANGED <<orchestrator, run_pc, entered, finished, run_result, cleaned>>
    /\ UNCHANGED nonRunVars

\* `if not Path(pdf_dir).exists(): return False`
ValidateDirectory ==
    /\ run_pc = "start"
    /\ \E exists \in BOOLEAN :
         IF exists THEN run_pc' = "boundary" /\ UNCHANGED run_result
         ELSE ReturnFromRun("False")
    /\ UNCHANGED <<orchestrator, shutdown_event, entered, finished, signal_seen,
                   cleaned>>
    /\ UNCHANGED nonRunVars

\* faulty variant: the event is not looked at
ShutdownRequestedIgnored(event) == FALSE

\* `if self.shutdown_event.is_set():`
ShutdownRequested(event) == event

\* the check before a stage, and the call that enters the stage
StageBoundary ==
    /\ run_pc = "boundary"
    /\ IF ShutdownRequested(shutdown_event)
       THEN ReturnFromRun("False") /\ UNCHANGED entered
       ELSE /\ entered' = Append(entered, Stages(orchestrator)[Len(entered) + 1])
            /\ run_pc' = "stage"
            /\ UNCHANGED run_result
    /\ UNCHANGED <<orchestrator, shutdown_event, finished, signal_seen, cleaned>>
    /\ UNCHANGED nonRunVars

\* the awaited stage comes back: with a result, with an empty or False result,
\* or with an exception (`except Exception: return False`)
StageDone ==
    /\ run_pc = "stage"
    /\ \E outcome \in {"ok", "empty", "raise"} :
         /\ finished' = Append(finished, outcome)
         /\ IF outcome = "raise"
               \/ (outcome = "empty"
                     /\ StageChecked(orchestrator, entered[Len(entered)]))
            THEN ReturnFromRun("False")
            ELSE /\ run_pc' = IF Len(entered) = Len(Stages(orchestrator))
                               THEN "display" ELSE "boundary"
                 /\ UNCHANGED run_result
    /\ UNCHANGED <<orchestrator, shutdown_event, entered, signal_seen, cleaned>>
    /\ UNCHANGED nonRunVars

\* _display_results(...) and `return True`
DisplayResults ==
    /\ run_pc = "display"
    /\ \E raised \in BOOLEAN : ReturnFromRun(IF raised THEN "False" ELSE "True")
    /\ UNCHANGED <<orchestrator, shutdown_event, entered, finished, signal_seen,
                   cleaned>>
    /\ UNCHANGED nonRunVars

\* finally: await self._cleanup(), then run() returns
Cleanup ==
    /\ run_pc = "cleanup"
    /\ cleaned' = TRUE
    /\ run_pc' = "returned"
    /\ UNCHANGED <<orchestrator, shutdown_event, entered, finished, signal_seen,
                   run_result>>
    /\ UNCHANGED nonRunVars

\* run() is called on a fresh orchestrator
InitRun ==
    /\ orchestrator \in {"acl", "images"}
    /\ run_pc = "start"
    /\ shutdown_event = FALSE
    /\ entered = <<>>
    /\ finished = <<>>
    /\ signal_seen = <<>>
    /\ run_result = "none"
    /\ cleaned = FALSE
    /\ BatchIdle
    /\ SearchIdle
    /\ FilterIdle
    /\ UploadIdle
    /\ AnalysisIdle
    /\ CallersIdle
    /\ HelpersIdle

RunNext ==
    \/ Signal
    \/ ValidateDirectory
    \/ StageBoundary
    \/ StageDone
    \/ DisplayResults
    \/ Cleanup

\* one run() of an orchestrator with the shutdown signal arriving at any time
SpecRun == InitRun /\ [][RunNext]_vars

\* the vision call answered 200 with this text
InitAnalysis ==
    /\ content \in SeqsUpTo({"{", "}", "d", "c", "x"}, MaxText)
    /\ analysis = NoAnalysis
    /\ analysis_pc = "called"
    /\ BatchIdle
    /\ SearchIdle
    /\ FilterIdle
    /\ UploadIdle
    /\ RunIdle
    /\ CallersIdle
    /\ HelpersIdle

SpecAnalysis == InitAnalysis /\ [][ProcessAnalysisResponse]_vars

\* every caller has called generate_embeddings with MaxUnits chunks:
\* `semaphore = asyncio.Semaphore(settings.max_concurrent_chunks)` and one
\* task per chunk, in each call
InitCallers ==
    /\ max_concurrent_chunks \in 1..MaxLimit
    /\ caller_semaphore = [c \in Callers |-> max_concurrent_chunks]
    /\ caller_pc = [c \in Callers |-> [i \in 1..MaxUnits |-> "wait_sem"]]
    /\ shared_throttler = 0
    /\ BatchIdle
    /\ SearchIdle
    /\ FilterIdle
    /\ UploadIdle
    /\ RunIdle
    /\ AnalysisIdle
    /\ HelpersIdle

CallersNext ==
    \/ \E c \in Callers, i \in 1..MaxUnits : CallerAcquireSemaphore(c, i)
    \/ \E c \in Callers, i \in 1..MaxUnits : CallerAcquireThrottler(c, i)
    \/ \E c \in Callers, i \in 1..MaxUnits : CallerFinish(c, i)
    \/ SharedThrottlerExpire

\* generate_embeddings called by several callers at once
SpecCallers == InitCallers /\ [][CallersNext]_vars

\* one call of one helper: a vector of up to vector_dimensions + 1 components
\* to validate, or a text of up to max_chars + 2 characters to prepare
InitHelpers ==
    /\ variant \in {"01", "02"}
    /\ helper_pc \in {"validate", "prepare"}
    /\ embedding_in \in (IF helper_pc = "validate"
                         THEN SeqsUpTo({"x", "nan", "inf"}, vector_dimensions + 1)
                         ELSE {<<>>})
    /\ text_in \in (IF helper_pc = "prepare"
                    THEN SeqsUpTo({" ", "a", "b"}, max_chars + 2)
                    ELSE {<<>>})
    /\ validated = FALSE
    /\ prepared = <<>>
    /\ BatchIdle
    /\ SearchIdle
    /\ FilterIdle
    /\ UploadIdle
    /\ RunIdle
    /\ AnalysisIdle
    /\ CallersIdle

HelpersNext ==
    \/ ValidateEmbedding
    \/ PrepareTextForEmbedding

SpecHelpers == InitHelpers /\ [][HelpersNext]_vars

Init ==
    /\ kind \in {"embedding", "vision"}
    /\ chunks \in SeqsUpTo({"c1", "c2"}, MaxUnits)
    /\ limit \in 1..MaxLimit
    /\ semaphore = limit
    /\ throttler = 0
    /\ pc = [i \in 1..Len(chunks) |-> "created"]
    /\ attempt = [i \in 1..Len(chunks) |-> 0]
    /\ gathered = [i \in 1..Len(chunks) |-> Pending]
    /\ results = <<>>
    /\ bpc = "init"
    /\ requests = [i \in 1..Len(chunks) |-> 0]
    /\ last_status = [i \in 1..Len(chunks) |-> ""]
    /\ delay = [i \in 1..Len(chunks) |-> 0]
    /\ overtaken = FALSE
    /\ SearchIdle
    /\ FilterIdle
    /\ UploadIdle
    /\ RunIdle
    /\ AnalysisIdle
    /\ CallersIdle
    /\ HelpersIdle

InitFilter ==
    /\ filter_input \in SeqsUpTo(Groups, MaxGroups)
    /\ filter_doc \in [id : {"d"}, document_groups : SUBSET Groups,
                       page_number : {"1"}]
    /\ filter_output = <<>>
    /\ filter_pc = "input"
    /\ BatchIdle
    /\ SearchIdle
    /\ UploadIdle
    /\ RunIdle
    /\ AnalysisIdle
    /\ CallersIdle
    /\ HelpersIdle

\* the state after construction: an empty cache, the configured groups
InitResolver ==
    /\ now = 0
    /\ tick = TimeStep
    /\ group_cache = [u \in Users |-> NoEntry]
    /\ document_access_groups \in {{"g1", "g2"}, {"g1"}}
    /\ call = NoCall
    /\ search = NoSearch
    /\ BatchIdle
    /\ FilterIdle
    /\ UploadIdle
    /\ RunIdle
    /\ AnalysisIdle
    /\ CallersIdle
    /\ HelpersIdle

\* a call upload_documents(chunks, embeddings): chunks of distinct places of the
\* files, each with the outcome of its own embedding
InitUpload ==
    /\ up_chunks \in InjectiveSeqs(ChunkSources, MaxChunks)
    /\ up_outcome \in [1..Len(up_chunks) -> {"ok", "failed", "missing"}]
    /\ up_embeddings = ResultsOf(up_chunks, up_outcome, 1)
    /\ documents = <<>>
    /\ skipped_count = 0
    /\ next_batch = 0
    /\ up_result = NoUploadResult
    /\ sent = {}
    /\ index_docs = {}
    /\ up_pc = "called"
    /\ batches_sent = <<>>
    /\ latest = {}
    /\ calls = 1
    /\ BatchIdle
    /\ SearchIdle
    /\ FilterIdle
    /\ RunIdle
    /\ AnalysisIdle
    /\ CallersIdle
    /\ HelpersIdle

Next ==
    \/ StartBatch
    \/ \E i \in Units : AcquireSemaphore(i)
    \/ \E i \in Units : AcquireThrottler(i)
    \/ ThrottlerExpire
    \/ \E i \in Units,
          resp \in {"ok", "bad_body", "429", "5xx", "4xx", "client_error", "error"} :
            EmbeddingResponse(i, resp)
    \/ \E i \in Units : BackoffOver(i)
    \/ \E i \in Units : VisionPrepare(i)
    \/ \E i \in Units, resp \in {"ok", "empty", "status", "client_error"} :
            VisionResponse(i, resp)
    \/ Collate

Spec == Init /\ [][Next]_vars

\* the same batch call on an event loop that keeps running a task that can
\* run, with endpoints that answer every request
SpecLive == Spec /\ WF_vars(Next)

SpecFilter == InitFilter /\ [][BuildFilter]_vars

\* the group cache over time
ResolverNext ==
    \/ Tick
    \/ \E u \in Users : GetUserGroups(u)
    \/ \E u \in Users : GetUserAccessibleGroups(u)

SpecResolver == InitResolver /\ [][ResolverNext]_vars

\* searches on top of the group cache
SearchNext ==
    \/ \E u \in Users, op \in {"search", "get"} : StartSearch(u, op)
    \/ FinishSearch
    \/ FinishGetDocument

SpecSearch == InitResolver /\ [][SearchNext]_vars

\* the searches of one principal while time passes and the entry ages
AgedSearchNext ==
    \/ Tick
    \/ StartSearch("u1", "search")
    \/ FinishSearch

SpecAgedSearch == InitResolver /\ [][AgedSearchNext]_vars

\* the first call of a row of ingestion runs
InitRepublish ==
    /\ up_chunks = <<>>
    /\ up_outcome = <<>>
    /\ up_embeddings = <<>>
    /\ documents = <<>>
    /\ skipped_count = 0
    /\ next_batch = 0
    /\ up_result = NoUploadResult
    /\ sent = {}
    /\ index_docs = {}
    /\ up_pc = "returned"
    /\ batches_sent = <<>>
    /\ latest = {}
    /\ calls = 0
    /\ BatchIdle
    /\ SearchIdle
    /\ FilterIdle
    /\ RunIdle
    /\ AnalysisIdle
    /\ CallersIdle
    /\ HelpersIdle

\* ingestion runs in a row on one index
RepublishNext ==
    \/ NextUpload
    \/ PrepareUpload
    \/ UploadBatch
    \/ ReturnUpload

SpecRepublish == InitRepublish /\ [][RepublishNext]_vars

\* one upload_documents call
UploadNext ==
    \/ PrepareUpload
    \/ UploadBatch
    \/ ReturnUpload

SpecUpload == InitUpload /\ [][UploadNext]_vars

(***************************************************************************)
(* Claims                                                                  *)
(***************************************************************************)
HoldingUnits == {i \in Units : pc[i] \in {"wait_throttle", "prepare", "inflight", "backoff"}}

\* C1: a returned embedding batch call holds exactly one outcome per input
\* unit, at the unit's position and with the unit's id, whatever mix of
\* successes, failure outcomes and raised exceptions the tasks ended with.
C1_OneOutcomePerUnit ==
    (bpc = "returned" /\ kind = "embedding")
        => /\ Len(results) = Len(chunks)
           /\ \A i \in 1..Len(chunks) :
                /\ results[i].tag = "result"
                /\ results[i].chunk_id = chunks[i]

C1_Witness ==
    /\ bpc = "returned"
    /\ kind = "embedding"
    /\ Len(chunks) >= 2
    /\ \E i \in Units : gathered[i].tag = "exception"
    /\ \E i \in Units : gathered[i].tag = "result" /\ ~gathered[i].success

\* C2: the filter built from an empty group list matches no document,
\* whatever the document's document_groups holds.
C2_EmptyListMatchesNothing ==
    (filter_pc = "built" /\ Len(filter_input) = 0)
        => ~FilterMatches(filter_output, filter_doc)

\* C3: every document a search or get_document_by_id returns has a
\* document_groups set that meets the groups resolved for the principal,
\* whatever filter expression the caller supplied.
C3_ResultsWithinAccessibleGroups ==
    \A id \in search.results :
        \A d \in Index : d.id = id => d.document_groups \cap search.accessible # {}

\* C4: a search whose group resolution failed or gave no accessible group
\* returns no results, count 0 and a message, and has issued neither an index
\* query nor a query embedding call.
C4_NoGroupsShortCircuit ==
    (search.op = "search" /\ search.status \notin {"", "running"}
        /\ (search.failed \/ search.accessible = {}))
        => /\ search.results = {}
           /\ search.count = 0
           /\ search.status = "message"
           /\ search.index_queries = 0
           /\ search.embed_calls = 0

C4_Witness ==
    /\ search.op = "search"
    /\ search.status = "message"
    /\ search.failed
    /\ call.lookup_failed

\* C5: for a non-empty group list the filter matches a document exactly when
\* the document's document_groups holds at least one group of the list.
C5_FilterMatchesIffShared ==
    (filter_pc = "built" /\ Len(filter_input) > 0)
        => (FilterMatches(filter_output, filter_doc)
              <=> \E i \in 1..Len(filter_input) :
                      filter_input[i] \in filter_doc.document_groups)

C5_Witness ==
    /\ filter_pc = "built"
    /\ filter_input = <<"g1", "g2">>
    /\ filter_doc.document_groups = {"g2"}
    /\ FilterMatches(filter_output, filter_doc)

\* C6: a failed group lookup reaches the caller as a failure: neither
\* get_user_groups nor get_user_accessible_groups returns a group set then.
C6_LookupFailureSurfaces ==
    call.lookup_failed => call.raised

\* the age classes of a cache entry at time t
EntryState(entry, t) ==
    IF ~entry.present THEN "uncached"
    ELSE IF t - entry.timestamp < cache_expiry THEN "valid" ELSE "stale"

\* C7: a get_user_groups call less than 30 minutes after the user's entry was
\* cached issues no request and returns the cached set, so that the two
\* resolutions cost one lookup; a call 30 minutes or more after it starts a
\* new lookup and, when that succeeds, replaces the entry by the fresh groups
\* stamped with the current time.
C7_OneLookupPerTTL ==
    [][(call'.n # call.n /\ call'.op = "get_user_groups"
            /\ group_cache[call'.user].present)
        => LET e == group_cache[call'.user]
           IN IF now - e.timestamp < cache_expiry
              THEN /\ call'.token_calls = 0
                   /\ call'.graph_calls = 0
                   /\ ~call'.raised
                   /\ call'.groups = e.groups
                   /\ group_cache' = group_cache
              ELSE /\ call'.token_calls = 1
                   /\ \/ call'.lookup_failed
                      \/ /\ call'.graph_calls = 1
                         /\ group_cache'[call'.user] = Entry(call'.groups, now)]_vars

C7_Witness ==
    /\ call.op = "get_user_groups"
    /\ call.stale
    /\ call.graph_calls = 1
    /\ ~call.raised
    /\ group_cache[call.user] = Entry(call.groups, now)
    /\ now >= cache_expiry

\* C8: get_user_groups answers from the cache only when the entry is younger
\* than 30 minutes; for an uncached or stale user it performs a lookup and
\* returns the groups it stored. An entry only moves uncached -> valid ->
\* stale -> valid and is never removed.
C8_CacheStateMachine ==
    [][/\ \A u \in Users :
            /\ <<EntryState(group_cache[u], now), EntryState(group_cache'[u], now')>>
                  \in {<<"uncached", "uncached">>, <<"uncached", "valid">>,
                       <<"valid", "valid">>, <<"valid", "stale">>,
                       <<"stale", "stale">>, <<"stale", "valid">>}
            /\ group_cache[u].present => group_cache'[u].present
       /\ (call'.n # call.n /\ call'.op = "get_user_groups")
            => LET e == group_cache[call'.user]
               IN /\ call'.hit <=> EntryState(e, now) = "valid"
                  /\ call'.hit => call'.groups = e.groups
                  /\ ~call'.hit
                        => /\ call'.token_calls = 1
                           /\ \/ call'.raised
                              \/ /\ group_cache'[call'.user].groups = call'.groups
                                 /\ EntryState(group_cache'[call'.user], now')
                                        = "valid"]_vars

C8_Witness ==
    /\ call.op = "get_user_groups"
    /\ call.hit
    /\ now - group_cache[call.user].timestamp > 0
    /\ \E u \in Users : EntryState(group_cache[u], now) = "stale"

\* C9: every document handed to the index comes from a chunk whose own
\* EmbeddingResult succeeded and carries that result's non-empty vector; a
\* chunk whose embedding is missing or failed is never uploaded.
C9_OnlyEmbeddedChunksUploaded ==
    \A d \in sent :
        \E i \in 1..Len(up_chunks) :
            /\ up_chunks[i].content = d.content
            /\ up_outcome[i] = "ok"
            /\ d.embedding = VectorOf(i)
            /\ d.embedding # <<>>

\* C10: the units inside `async with semaphore` are never more than the
\* configured limit; the others wait.
C10_AdmissionBound ==
    /\ Cardinality(HoldingUnits) <= limit
    /\ semaphore = limit - Cardinality(HoldingUnits)

C10_Witness ==
    /\ Cardinality(HoldingUnits) = limit
    /\ \E i \in Units : pc[i] = "wait_sem"
    /\ \E i \in Units : pc[i] = "backoff"

RECURSIVE SumUpTo(_, _)
\* f[1] + ... + f[n]
SumUpTo(f, n) == IF n = 0 THEN 0 ELSE f[n] + SumUpTo(f, n - 1)

\* C11: the requests issued inside one rate period, retries included, are never
\* more than the period's limit. As long as no acquisition has left the
\* period (the Throttler counts as many as units have acquired it), every
\* request issued so far lies inside the period.
C11_RequestsWithinRateWindow ==
    (kind = "embedding"
        /\ throttler = Cardinality({i \in Units :
                                        pc[i] \in {"inflight", "backoff", "done"}}))
        => SumUpTo(requests, Len(requests)) <= RateLimit

\* C12: a unit issues at most max_retries requests, and after failed attempt
\* k (k = 0, 1) with status 429 or 5xx it sleeps min(1 * 2^k, 60) seconds
\* before the next request.
C12_RetryCapAndBackoff ==
    \A i \in Units :
        /\ requests[i] <= 3
        /\ (pc[i] = "backoff" /\ last_status[i] \in {"429", "5xx"})
              => /\ attempt[i] \in {0, 1}
                 /\ requests[i] = attempt[i] + 1
                 /\ delay[i] = Min(2^attempt[i], 60)

C12_Witness ==
    \E i \in Units :
        /\ pc[i] = "backoff"
        /\ last_status[i] = "429"
        /\ attempt[i] = 1
        /\ delay[i] = 2
        /\ \E j \in Units : pc[j] = "done" /\ requests[j] = 3

\* what is left of the retry loop of unit i: passes still to make, twice, less
\* one while it sleeps
Remaining(i) == 2 * (max_retries - attempt[i]) - (IF pc[i] = "backoff" THEN 1 ELSE 0)

\* C13: whatever statuses, transport errors and malformed bodies arrive, a
\* unit that issued a request ends with an EmbeddingResult and never with an
\* exception: every step of its loop either ends it or brings the end of the
\* loop nearer; it ends with success exactly when a valid 200 arrived, and
\* with the rate-limit failure when the last attempt of the cap got a 429.
C13_SingleCallAlwaysReturnsResult ==
    [][\A i \in Units :
        (kind = "embedding" /\ pc[i] \in {"inflight", "backoff"}
            /\ <<pc'[i], attempt'[i]>> # <<pc[i], attempt[i]>>)
          => \/ /\ pc'[i] \in {"inflight", "backoff"}
                /\ Remaining(i)' < Remaining(i)
                /\ Remaining(i)' > 0
             \/ /\ pc'[i] = "done"
                /\ gathered'[i].tag = "result"
                /\ gathered'[i].chunk_id = chunks[i]
                /\ gathered'[i].success <=> last_status'[i] = "ok"
                /\ gathered'[i].success => gathered'[i].embedding # <<>>
                /\ ~gathered'[i].success => requests[i] = max_retries
                /\ last_status'[i] = "429"
                      => gathered'[i].error = "Rate limit exceeded"]_vars

C13_Witness ==
    \E i \in Units :
        /\ pc[i] = "done"
        /\ requests[i] = max_retries
        /\ gathered[i].tag = "result"
        /\ gathered[i].error = "Rate limit exceeded"
        /\ \E j \in Units : pc[j] = "done" /\ gathered[j].error = "Unexpected error"

\* C14: a 4xx status other than 429 is not retried: the unit ends with a
\* failure after that attempt and issues no further request.
C14_NoRetryOn4xx ==
    \A i \in Units :
        last_status[i] = "4xx"
            => /\ pc[i] = "done"
               /\ ~gathered[i].success
               /\ requests[i] = 1

\* C15: a unit in retry backoff keeps no other submitted unit from being
\* admitted: whenever a unit sleeps and another waits for admission, the
\* waiting unit can be admitted.
C15_BackoffBlocksNobody ==
    \A i, j \in Units :
        (pc[i] = "backoff" /\ pc[j] = "wait_sem") => ENABLED AcquireSemaphore(j)

RECURSIVE Flatten(_)
\* the documents of a sequence of batches, in order
Flatten(bs) == IF Len(bs) = 0 THEN <<>> ELSE Head(bs) \o Flatten(Tail(bs))

\* C17: the prepared documents go out in consecutive batches of at most
\* batch_size, each document in exactly one batch; a batch that raises is
\* counted as failed as a whole and the batches after it are still sent.
C17_BatchesPartitionDocuments ==
    (up_pc \in {"batches", "returned"} /\ Len(documents) > 0) =>
        /\ \A k \in 1..Len(batches_sent) :
              Len(batches_sent[k]) >= 1 /\ Len(batches_sent[k]) <= BatchSize
        /\ Flatten(batches_sent) = SubSeq(documents, 1, Min(next_batch, Len(documents)))
        /\ up_pc = "returned" => Flatten(batches_sent) = documents
        /\ up_result.failed =
              SumUpTo([k \in 1..Len(up_result.errors) |->
                          IF up_result.errors[k][1] = "Batch"
                          THEN Len(batches_sent[up_result.errors[k][2]]) ELSE 1],
                      Len(up_result.errors))

\* the first batch raised and the second one went through
C17_Witness ==
    /\ up_pc = "returned"
    /\ Len(batches_sent) = 2
    /\ Len(batches_sent[1]) = BatchSize
    /\ up_result.errors = <<(<<"Batch", 1>>)>>
    /\ up_result.failed = BatchSize
    /\ up_result.success = Len(batches_sent[2])

\* C18: a document the index rejects is one failure with an error entry of its
\* own and fails no other document; whenever at least one document was
\* prepared, success + failed is the number of prepared documents.
C18_RejectionsCountedPerDocument ==
    (up_pc \in {"batches", "returned"} /\ Len(documents) > 0) =>
        /\ up_result.success + up_result.failed = Len(Flatten(batches_sent))
        /\ up_pc = "returned" =>
              up_result.success + up_result.failed = Len(documents)
        /\ \A k \in 1..Len(up_result.errors) :
              up_result.errors[k][1] = "Document" =>
                  \E d \in sent : d.id = up_result.errors[k][2]
        /\ (\A k \in 1..Len(up_result.errors) : up_result.errors[k][1] # "Batch") =>
              /\ up_result.failed = Len(up_result.errors)
              /\ up_result.success = Len(Flatten(batches_sent)) - Len(up_result.errors)

\* one document of a batch of two was rejected, the other one is stored
C18_Witness ==
    /\ up_pc = "returned"
    /\ Len(documents) = 2
    /\ Len(batches_sent) = 1
    /\ up_result.success = 1
    /\ up_result.failed = 1
    /\ up_result.errors = <<(<<"Document", documents[1].id>>)>>
    /\ documents[2] \in index_docs
    /\ documents[1] \notin index_docs

\* C19: chunks skipped for a missing or failed embedding are counted apart
\* from upload failures: the returned failed count covers only documents that
\* were handed to the index, never a skipped chunk.
C19_FailedExcludesSkipped ==
    up_pc = "returned" =>
        /\ up_result.failed <= Len(documents)
        /\ up_result.success + up_result.failed + skipped_count <= Len(up_chunks)

\* C20: a hybrid search whose query embedding failed is run as a text search
\* with the same combined security filter, and what the index answers is
\* returned without an error; a running search can always return.
C20_HybridFallsBackToText ==
    /\ (search.op = "search" /\ search.search_type = "hybrid"
            /\ search.embedding_failed) =>
          /\ search.executed = "text"
          /\ search.index_queries = 1
          /\ search.filter_used =
                CombineFilter(generate_security_filter(SetToSeq(search.accessible)),
                              CallerFilters[search.filter_expression])
          /\ \/ search.index_failed /\ search.status = "error"
             \/ /\ search.status = "ok"
                /\ search.results = IndexQuery(search.filter_used, TRUE).ids
    /\ (search.op = "search" /\ search.status = "running") => ENABLED FinishSearch

\* a hybrid search with a failed query embedding came back with documents
C20_Witness ==
    /\ search.op = "search"
    /\ search.search_type = "hybrid"
    /\ search.embedding_failed
    /\ search.status = "ok"
    /\ search.executed = "text"
    /\ search.results # {}

\* C21: search_with_permissions never raises to its caller: after a failed
\* group lookup, a failed query embedding in vector mode or an index error it
\* returns no results and count 0 with an error or a message.
C21_SearchNeverRaises ==
    (search.op = "search" /\ search.status \notin {"", "running"}) =>
        /\ search.status \in {"ok", "error", "message"}
        /\ search.status \in {"error", "message"} =>
              search.results = {} /\ search.count = 0
        /\ (search.failed /\ search.accessible = {}) => search.status = "message"
        /\ (search.search_type = "vector" /\ search.embedding_failed) =>
              search.status = "error"
        /\ search.index_failed => search.status = "error"

\* a vector search whose query embedding failed came back with an error
C21_Witness ==
    /\ search.op = "search"
    /\ search.search_type = "vector"
    /\ search.embedding_failed
    /\ search.status = "error"
    /\ search.index_queries = 0

\* C22: once the shutdown signal is set, run() enters no further pipeline
\* stage and returns False; the stage in flight is not cancelled and cleanup
\* still runs.
C22_ShutdownStopsRun ==
    shutdown_event =>
        /\ Len(entered) = signal_seen[2]
        /\ run_pc = "stage" => ENABLED StageDone
        /\ run_pc = "returned" =>
              /\ run_result = "False"
              /\ Len(finished) = Len(entered)
              /\ cleaned

\* C22, amended: once the shutdown signal is set, run() enters no further
\* pipeline stage, and it returns False when a stage was still to be entered;
\* the stage in flight is not cancelled and cleanup still runs.
C22_ShutdownStopsFurtherStages ==
    shutdown_event =>
        /\ Len(entered) = signal_seen[2]
        /\ run_pc = "stage" => ENABLED StageDone
        /\ run_pc = "returned" =>
              /\ signal_seen[2] < Len(Stages(orchestrator)) => run_result = "False"
              /\ Len(finished) = Len(entered)
              /\ cleaned

\* the signal came while the second stage was in flight: that stage came back
\* with its result, no third stage was entered, run() returned False
C22_Witness ==
    /\ run_pc = "returned"
    /\ signal_seen = <<"stage", 2>>
    /\ finished = <<"ok", "ok">>
    /\ Len(entered) = 2
    /\ run_result = "False"
    /\ cleaned

\* C23: in the list a batch call returns, the outcome at position i is the
\* outcome of the unit at position i of the input, with its id, in whatever
\* order the tasks ended and also when a task raised.
C23_OutcomesInInputOrder ==
    (bpc = "returned" /\ kind = "embedding") =>
        \A i \in 1..Len(chunks) :
            /\ i <= Len(results)
            /\ results[i].chunk_id = chunks[i]
            /\ results[i].success <=> last_status[i] = "ok"
            /\ requests[i] = 0 <=> results[i].error = "session"
            /\ (requests[i] > 0 /\ ~results[i].success) =>
                  results[i].error = FailureText(last_status[i])

\* the second task ended before the first one; the first one raised and the
\* second one got its embedding
C23_Witness ==
    /\ bpc = "returned"
    /\ kind = "embedding"
    /\ overtaken
    /\ chunks = <<"c1", "c2">>
    /\ requests[1] = 0
    /\ results[1].chunk_id = "c1" /\ results[1].error = "session"
    /\ results[2].chunk_id = "c2" /\ results[2].success

\* C24: analyze_images returns exactly one outcome per input image, with the
\* id of that image, also when vision calls fail or raise.
C24_OneAnalysisPerImage ==
    (bpc = "returned" /\ kind = "vision") =>
        /\ Len(results) = Len(chunks)
        /\ \A i \in 1..Len(chunks) : results[i].chunk_id = chunks[i]

\* text[a..b] is a JSON object, from the first "{" to the last "}" of the text
JsonSpan(text, a, b) ==
    /\ a < b
    /\ text[a] = "{" /\ \A j \in 1..(a - 1) : text[j] # "{"
    /\ text[b] = "}" /\ \A j \in (b + 1)..Len(text) : text[j] # "}"
    /\ \A k \in (a + 1)..(b - 1) : text[k] \in {"d", "c"}

C26_TokenReusedWhileValid ==
    [][(call'.n # call.n
          /\ \E v \in Users : group_cache[v].present /\ group_cache[v].timestamp = now)
        => call'.token_calls = 0]_vars

\* C27: when a 429 carries a retry hint larger than the computed exponential
\* backoff, the client waits at least the hinted time before the next attempt.
C27_RetryHintHonoured ==
    \A i \in Units :
        (kind = "embedding" /\ pc[i] = "backoff" /\ last_status[i] = "429"
            /\ RetryAfter > Min(retry_delay * 2 ^ attempt[i], 60))
        => delay[i] >= RetryAfter

\* C28: when all attempts of a unit failed, the failure outcome carries the
\* error of the last attempt, whatever kinds of failure the attempts met.
C28_LastErrorReturned ==
    \A i \in Units :
        (kind = "embedding" /\ pc[i] = "done" /\ gathered[i].tag = "result"
            /\ ~gathered[i].success /\ requests[i] = max_retries)
        => gathered[i].error = (IF last_status[i] = "bad_body"
                                THEN "Invalid response format"
                                ELSE FailureText(last_status[i]))

\* C29: with several batch calls running at once on one generator, the
\* requests in flight never exceed the configured concurrency limit.
C29_LimitHoldsAcrossCallers ==
    Cardinality({ci \in Callers \X (1..MaxUnits) :
                    caller_pc[ci[1]][ci[2]] = "inflight"}) <= max_concurrent_chunks

\* C30: a vision call that gets a 429, a 5xx status or a transport error is
\* retried under the retry policy of the embedding calls, and its requests
\* pass the same rate window, before the image is reported as failed: the
\* first failed response does not end the task, and a request that goes out
\* is an admission of the throttler.
C30_VisionCallsRetried ==
    [][\A i \in Units :
          /\ (VisionResponse(i, "status") \/ VisionResponse(i, "client_error"))
                => (attempt[i] < max_retries - 1 => pc'[i] # "done")
          /\ (VisionPrepare(i) /\ pc'[i] = "inflight")
                => throttler' = throttler + 1]_vars

\* C33: a 200 response with a malformed body, or with a vector that fails
\* validation, is not retried: the pass that receives it ends the unit with a
\* failure outcome and issues no further request for it.
C33_ValidationFailureNotRetried ==
    [][\A i \in Units :
          EmbeddingResponse(i, "bad_body")
              => /\ pc'[i] = "done"
                 /\ gathered'[i].tag = "result" /\ ~gathered'[i].success
                 /\ requests'[i] = requests[i]]_vars

\* C39: chunks of distinct (file name, page number, chunk index) have distinct
\* ids, so no two chunks of one call share an entry of the id -> embedding map
\* or a key of the index.
C39_DistinctChunkIds ==
    \A i, j \in 1..Len(up_chunks) :
        <<up_chunks[i].file_name, up_chunks[i].page_number, up_chunks[i].chunk_index>>
            # <<up_chunks[j].file_name, up_chunks[j].page_number,
                up_chunks[j].chunk_index>>
        => up_chunks[i].id # up_chunks[j].id

\* C40: a failed group lookup (token acquisition failure or non-200 response)
\* leaves the group cache unchanged: no entry is created for the principal, a
\* stale entry keeps its groups and timestamp, other entries are untouched.
C40_FailedLookupKeepsCache ==
    [][(call'.n # call.n /\ call'.lookup_failed) => group_cache' = group_cache]_vars

\* a lookup for a principal with a stale entry failed at the graph request
\* while another principal has an entry: both entries are as they were
C40_Witness ==
    /\ call.lookup_failed
    /\ call.graph_calls = 1
    /\ call.stale
    /\ group_cache[call.user].present
    /\ now - group_cache[call.user].timestamp >= cache_expiry
    /\ group_cache[call.user].groups # {}
    /\ \E v \in Users \ {call.user} : group_cache[v].present

\* C37: a search started 30 minutes or more after the principal's cache entry
\* was written never uses the membership of that entry: it asks the identity
\* graph again and works with the groups delivered now, or, when that lookup
\* fails, returns at once with no results.
C37_StaleMembershipNeverUsed ==
    [][(call'.n # call.n /\ search' # search /\ search'.op = "search"
          /\ group_cache[call'.user].present
          /\ now - group_cache[call'.user].timestamp >= cache_expiry)
        => /\ ~call'.hit
           /\ call'.token_calls = 1
           /\ IF call'.lookup_failed
              THEN /\ search'.accessible = {}
                   /\ search'.status = "message"
                   /\ search'.results = {}
              ELSE /\ call'.graph_calls = 1
                   /\ group_cache'[call'.user].timestamp = now
                   /\ search'.accessible
                        = group_cache'[call'.user].groups \cap document_access_groups]_vars

\* a search 30 minutes after the entry was written ran with the groups the
\* graph delivered at its start, which no longer hold g2
C37_Witness ==
    /\ search.op = "search"
    /\ search.status = "ok"
    /\ call.stale
    /\ ~call.lookup_failed
    /\ now >= cache_expiry
    /\ document_access_groups = {"g1", "g2"}
    /\ group_cache[call.user] = Entry({"g1"}, now)
    /\ search.accessible = {"g1"}
    /\ \A id \in search.results :
          \A d \in Index : d.id = id => "g1" \in d.document_groups

\* C35: get_user_groups calls for one principal that run at the same time: a
\* call that returns gives back either the set the graph delivered to it, which
\* it stored for the principal, or the set a lookup for the same principal
\* stored before; no call changes the entry of another principal.
C35_ConcurrentLookupsAgree ==
    [][(call'.n # call.n /\ call'.op = "get_user_groups")
        => LET u == call'.user
           IN /\ \A v \in Users \ {u} : group_cache'[v] = group_cache[v]
              /\ ~call'.raised =>
                    \/ /\ call'.hit
                       /\ group_cache[u].present
                       /\ call'.groups = group_cache[u].groups
                       /\ group_cache'[u] = group_cache[u]
                    \/ /\ ~call'.hit
                       /\ call'.graph_calls = 1
                       /\ group_cache'[u].present
                       /\ group_cache'[u].groups = call'.groups
                       /\ group_cache'[u].timestamp = now]_vars

\* two calls for one principal at the same time: the later one returned the
\* set the earlier one had just stored
C35_Witness ==
    /\ call.op = "get_user_groups"
    /\ call.hit
    /\ now > 0
    /\ group_cache[call.user].timestamp = now
    /\ call.groups = group_cache[call.user].groups
    /\ call.groups # {}

\* C34: a group lookup yields control while it waits for the answer of the
\* identity graph: the step of the event loop in which the lookup sends its
\* request ends at the wait, so it neither stores nor returns the answer, and
\* other tasks can run before the answer is used.
C34_LookupYieldsWhileWaiting ==
    [][(call'.n # call.n /\ call'.graph_calls = 1)
        => /\ group_cache' = group_cache
           /\ ~call'.raised
           /\ call'.groups = {}]_vars

\* C38: validate_user_access and the search-time security filter decide alike:
\* for every user, every outcome of the group lookup and every list G of
\* document groups, validate_user_access(u, G) is true exactly when the filter
\* built from get_user_accessible_groups(u) selects a document with
\* document_groups = G.
C38_ValidateAgreesWithFilter ==
    \A u \in Users, token_ok \in BOOLEAN, resp \in GraphResponses :
        \A G \in SUBSET {"g1", "g2"} :
            LET o == get_user_groups(u, token_ok, resp)
                accessible == get_user_accessible_groups(o).groups
            IN validate_user_access(o, G)
                 <=> FilterMatches(generate_security_filter(SetToSeq(accessible)),
                                   Doc("d", G, "1"))

\* C36: for every batch size and every concurrency limit >= 1, on a fair event
\* loop with answering endpoints every unit that waits for an admission slot
\* eventually gets one and the batch call eventually returns: a task gives its
\* slot back on every way out (success, failure outcome, exception).
C36_BatchNeverDeadlocks ==
    /\ <>(bpc = "returned")
    /\ \A i \in 1..MaxUnits :
          (i \in Units /\ pc[i] = "wait_sem") ~> (i \in Units /\ pc[i] # "wait_sem")

\* a batch of more units than slots has returned; one task left by an
\* exception, another one with a failure outcome after all its attempts
C36_Witness ==
    /\ bpc = "returned"
    /\ Len(chunks) > limit
    /\ semaphore = limit
    /\ \E i, j \in Units :
          /\ gathered[i].tag = "exception"
          /\ gathered[j].tag = "result" /\ ~gathered[j].success
          /\ requests[j] = max_retries

\* C31: in every variant of the embedding generator a vector is accepted, and
\* the outcome marked succeeded, only if the vector is non-empty, has exactly
\* vector_dimensions components and holds no NaN or infinite component.
C31_OnlyValidVectorsSucceed ==
    (helper_pc = "validated" /\ validated)
        => /\ Len(embedding_in) > 0
           /\ Len(embedding_in) = vector_dimensions
           /\ \A k \in 1..Len(embedding_in) : embedding_in[k] = "x"

\* C32: _prepare_text_for_embedding returns the stripped text when that has at
\* most max_chars characters and its first max_chars characters otherwise: the
\* text is cut into leading whitespace, a body that neither starts nor ends
\* with whitespace, and trailing whitespace, and the result is the body or its
\* first max_chars characters. The result never exceeds max_chars characters.
C32_PreparedTextStrippedAndCut ==
    helper_pc = "prepared"
        => /\ Len(prepared) <= max_chars
           /\ \E lead, trail \in 0..Len(text_in) :
                 /\ lead + trail <= Len(text_in)
                 /\ \A k \in 1..lead : text_in[k] = " "
                 /\ \A k \in (Len(text_in) - trail + 1)..Len(text_in) : text_in[k] = " "
                 /\ LET body == SubSeq(text_in, lead + 1, Len(text_in) - trail)
                    IN /\ Len(body) > 0 => (body[1] # " " /\ body[Len(body)] # " ")
                       /\ prepared = IF Len(body) <= max_chars THEN body
                                     ELSE SubSeq(body, 1, max_chars)

\* a text with whitespace at both ends and a body longer than max_chars was
\* stripped and cut; the cut left a whitespace at the end
C32_Witness ==
    /\ helper_pc = "prepared"
    /\ text_in = <<" ", "a", "b", " ", "a">>
    /\ prepared = <<"a", "b", " ">>

====
